---- MODULE Spec2Model ----
(***************************************************************************)
(* DBPool (pkg/db/db_pool.go): the registry of store handles, the          *)
(* checkpoint record kept in the metadata store, and the batch protocol    *)
(* that ships write batches as wire items.                                 *)
(***************************************************************************)
EXTENDS Integers, Sequences, FiniteSets, TLC

VARIABLES
    dbs,        \* DBPool.dbs: identifier -> dbWrap
    metaDBID,   \* DBPool.metaDBID
    store,      \* contents of every store instance: instance -> (key -> bytes)
    aborted,    \* the process died of an unrecovered panic
    last,       \* the last completed call: operation, arguments, result, state before
    hist,       \* what the calls so far have been (history for the claims)
    thr,        \* concurrent callers: where each thread is in its call
    rw,         \* the pool's sync.RWMutex
    mem         \* the caller's in-memory batches and the wire items made of them

vars == <<dbs, metaDBID, store, aborted, last, hist, thr, rw, mem>>

conc == <<thr, rw>>

----------------------------------------------------------------------------
(* Bounds and input sets *)

MaxID == 1

MinInt32 == -2147483647 - 1   \* math.MinInt32

LastBlockInfo == "rpl_last_bk"

IDs == {MinInt32} \cup (1..MaxID)

Paths == {"/a", "/b"}

DbTypes == {"leveldb", "rocksdb"}

Instances == {"storeA", "storeB"}

MaxItems == 3

----------------------------------------------------------------------------
(* The registry *)

dbWrap(id, db, path, dbType, isMeta) ==
    [id |-> id, db |-> db, path |-> path, dbType |-> dbType, isMeta |-> isMeta]

\* p.dbs[id] = w
MapPut(d, id, w) ==
    [x \in (DOMAIN d) \cup {id} |-> IF x = id THEN w ELSE d[x]]

NewDBPool == [dbs |-> <<>>, metaDBID |-> MinInt32]

\* The store instance NewLDB opens at a path.
NewLDB(path) == IF path = "/a" THEN "storeA" ELSE "storeB"

\* Register, line 52: the second metadata designation panics.
RegisterPanics(m, isMetaDB) == isMetaDB /\ m # MinInt32

RegisterResDesignatesFirst(d, m, id, path, dbType, db, isMetaDB) ==
    [dbs      |-> MapPut(d, id, dbWrap(id, db, path, dbType, isMetaDB)),
     metaDBID |-> IF isMetaDB THEN id ELSE m,
     panic    |-> RegisterPanics(m, isMetaDB)]

\* Register, lines 45-57: the handle is inserted before the check; a panic
\* leaves the designation as it was.
RegisterRes(d, m, id, path, dbType, db, isMetaDB) ==
    [dbs      |-> MapPut(d, id, dbWrap(id, db, path, dbType, isMetaDB)),
     metaDBID |-> IF isMetaDB /\ ~RegisterPanics(m, isMetaDB) THEN id ELSE m,
     panic    |-> RegisterPanics(m, isMetaDB)]

OpenPathTakenNever(d, info) == FALSE

\* Open, lines 68-72: some handle, of any engine type, has the path.
OpenPathTaken(d, info) ==
    \E x \in DOMAIN d : d[x].path = info.DbPath

OpenResOverwrites(d, m, info, newOk) ==
    IF info.DbType # "leveldb"
    THEN [dbs |-> d, metaDBID |-> m, err |-> "nil", opened |-> FALSE]
    ELSE IF ~newOk
    THEN [dbs |-> d, metaDBID |-> m, err |-> "ErrOpen", opened |-> FALSE]
    ELSE [dbs |-> MapPut(d, info.Id,
                     dbWrap(info.Id, NewLDB(info.DbPath), info.DbPath,
                            info.DbType, info.IsMeta)),
          metaDBID |-> IF info.IsMeta /\ m = MinInt32 THEN info.Id ELSE m,
          err |-> IF info.IsMeta /\ m # MinInt32
                  THEN "ErrMetaDBAlreadyRegistered" ELSE "nil",
          opened |-> TRUE]

\* Open, lines 63-91.
OpenRes(d, m, info, newOk) ==
    IF info.Id \in DOMAIN d
    THEN [dbs |-> d, metaDBID |-> m, err |-> "nil", opened |-> FALSE]
    ELSE IF info.DbType # "leveldb"
    THEN [dbs |-> d, metaDBID |-> m, err |-> "nil", opened |-> FALSE]
    ELSE IF OpenPathTaken(d, info)
    THEN [dbs |-> d, metaDBID |-> m, err |-> "nil", opened |-> FALSE]
    ELSE IF ~newOk
    THEN [dbs |-> d, metaDBID |-> m, err |-> "ErrOpen", opened |-> FALSE]
    ELSE LET d2 == MapPut(d, info.Id,
                     dbWrap(info.Id, NewLDB(info.DbPath), info.DbPath,
                            info.DbType, info.IsMeta))
         IN  IF info.IsMeta /\ m # MinInt32
             THEN [dbs |-> d2, metaDBID |-> m,
                   err |-> "ErrMetaDBAlreadyRegistered", opened |-> TRUE]
             ELSE [dbs |-> d2,
                   metaDBID |-> IF info.IsMeta THEN info.Id ELSE m,
                   err |-> "nil", opened |-> TRUE]

\* GetDB, lines 140-144.
GetDBRes(d, id) ==
    IF id \notin DOMAIN d
    THEN [db |-> "nil", err |-> "ErrNotFound"]
    ELSE [db |-> d[id].db, err |-> "nil"]

\* GetDBID, lines 150-155: the handles a scan of the map can stop at.
GetDBIDMatches(d, path) == {x \in DOMAIN d : d[x].path = path}

\* pb.DBInfo built at lines 127-132.
DBInfoOf(id, w) ==
    [Id |-> id, DbType |-> w.dbType, DbPath |-> w.path, IsMeta |-> w.isMeta]

\* The orders in which a range over the map can visit its keys.
Orders(S) ==
    {f \in [1..Cardinality(S) -> S] : \A i, j \in 1..Cardinality(S) : f[i] = f[j] => i = j}

GetDBInfoResFirstOnly(d, m, order) ==
    IF m = MinInt32
    THEN [info |-> <<>>, err |-> "ErrNoMetaDBRegistered"]
    ELSE [info |-> [i \in 1..Len(order) |-> DBInfoOf(order[1], d[order[1]])],
          err |-> "nil"]

\* GetDBInfo, lines 122-134, visiting the map in the given order.
GetDBInfoRes(d, m, order) ==
    IF m = MinInt32
    THEN [info |-> <<>>, err |-> "ErrNoMetaDBRegistered"]
    ELSE [info |-> [i \in 1..Len(order) |-> DBInfoOf(order[i], d[order[i]])],
          err |-> "nil"]

----------------------------------------------------------------------------
(* Bytes: a sequence of tokens, each a field number with a string or a      *)
(* number.  Field number 0 does not occur in a well-formed message.         *)

Tok(f, str, n) == [f |-> f, s |-> str, n |-> n]

\* pb.BlockInfo with every field zero-valued.
ZeroBlockInfo ==
    [ChainId |-> "", Env |-> "", BlockNum |-> 0, BlockHash |-> "",
     MsgOffset |-> 0, BlockType |-> 0, BlockSize |-> 0]

BlockInfos ==
    [ChainId : {"", "eth"}, Env : {"", "prod"}, BlockNum : {-1, 0, 42},
     BlockHash : {"", "0xab"}, MsgOffset : {0, 7}, BlockType : {0, 2},
     BlockSize : {0, 100}]

\* proto.Marshal of a proto3 message: the fields in field-number order, a
\* field with the zero value left out.
ProtoMarshal(h) ==
    SelectSeq(<<Tok(1, h.ChainId, 0), Tok(2, h.Env, 0), Tok(3, "", h.BlockNum),
                Tok(4, h.BlockHash, 0), Tok(5, "", h.MsgOffset),
                Tok(6, "", h.BlockType), Tok(7, "", h.BlockSize)>>,
              LAMBDA t : t.s # "" \/ t.n # 0)

SetField(h, t) ==
    CASE t.f = 1 -> [h EXCEPT !.ChainId = t.s]
      [] t.f = 2 -> [h EXCEPT !.Env = t.s]
      [] t.f = 3 -> [h EXCEPT !.BlockNum = t.n]
      [] t.f = 4 -> [h EXCEPT !.BlockHash = t.s]
      [] t.f = 5 -> [h EXCEPT !.MsgOffset = t.n]
      [] t.f = 6 -> [h EXCEPT !.BlockType = t.n]
      [] t.f = 7 -> [h EXCEPT !.BlockSize = t.n]
      [] OTHER -> h

RECURSIVE MergeFields(_, _)
MergeFields(h, b) ==
    IF b = <<>> THEN h ELSE MergeFields(SetField(h, Head(b)), Tail(b))

\* proto.Unmarshal(b, header): the message is reset, then the fields of b are
\* merged into it; bytes that are no message are an error.
ProtoUnmarshal(b, header) ==
    IF \E i \in 1..Len(b) : b[i].f < 1
    THEN [ok |-> FALSE, header |-> ZeroBlockInfo]
    ELSE [ok |-> TRUE, header |-> MergeFields(ZeroBlockInfo, b)]

----------------------------------------------------------------------------
(* Stores *)

\* DB.Get(key) on a store instance.
StoreGet(st, db, key) ==
    IF key \in DOMAIN st[db]
    THEN [found |-> TRUE, val |-> st[db][key]]
    ELSE [found |-> FALSE, val |-> <<>>]

\* One put of a batch applied to the contents of a store.
StorePut(c, key, val) ==
    [k \in (DOMAIN c) \cup {key} |-> IF k = key THEN val ELSE c[k]]

----------------------------------------------------------------------------
(* The checkpoint protocol *)

NoHeader(err) == [hasHeader |-> FALSE, header |-> ZeroBlockInfo, err |-> err]

GetBlockInfoResZeroHeader(d, m, st, getOk) ==
    IF m = MinInt32 THEN NoHeader("ErrNoMetaDBRegistered")
    ELSE IF ~getOk THEN NoHeader("ErrGet")
    ELSE LET got == StoreGet(st, d[m].db, LastBlockInfo)
         IN  IF ~got.found \/ Len(got.val) = 0
             THEN [hasHeader |-> TRUE, header |-> ZeroBlockInfo, err |-> "nil"]
             ELSE IF ~ProtoUnmarshal(got.val, ZeroBlockInfo).ok
             THEN NoHeader("nil")
             ELSE [hasHeader |-> TRUE,
                   header |-> ProtoUnmarshal(got.val, ZeroBlockInfo).header,
                   err |-> "nil"]

\* GetBlockInfo, lines 98-116.  getOk: DB.Get fails with no error other than
\* leveldb.ErrNotFound.
GetBlockInfoRes(d, m, st, getOk) ==
    IF m = MinInt32 THEN NoHeader("ErrNoMetaDBRegistered")
    ELSE IF ~getOk THEN NoHeader("ErrGet")
    ELSE LET got == StoreGet(st, d[m].db, LastBlockInfo)
             header == [ZeroBlockInfo EXCEPT !.BlockNum = -1, !.MsgOffset = -1]
         IN  IF ~got.found \/ Len(got.val) = 0
             THEN [hasHeader |-> TRUE, header |-> header, err |-> "nil"]
             ELSE IF ~ProtoUnmarshal(got.val, header).ok
             THEN NoHeader("nil")
             ELSE [hasHeader |-> TRUE,
                   header |-> ProtoUnmarshal(got.val, header).header,
                   err |-> "nil"]

WriteBlockInfoResUnguarded(d, m, st, header, writeOk) ==
    IF m \notin DOMAIN d THEN [store |-> st, err |-> "panic"]
    ELSE [store |-> [st EXCEPT ![d[m].db] =
                        StorePut(@, LastBlockInfo, ProtoMarshal(header))],
          err |-> "nil"]

\* WriteBlockInfo, lines 175-191.  writeOk: the batch write succeeds.
WriteBlockInfoRes(d, m, st, header, writeOk) ==
    IF m = MinInt32 THEN [store |-> st, err |-> "ErrNoMetaDBRegistered"]
    ELSE IF ~writeOk THEN [store |-> st, err |-> "ErrWrite"]
    ELSE [store |-> [st EXCEPT ![d[m].db] =
                        StorePut(@, LastBlockInfo, ProtoMarshal(header))],
          err |-> "nil"]

----------------------------------------------------------------------------
(* Batches of the store engine *)

Put(key, val) == [key |-> key, val |-> val]

\* An in-memory batch: the store instance it belongs to and its pending puts.
Batch(db, ops) == [db |-> db, ops |-> ops]

RECURSIVE BatchDump(_)
\* Batch.Dump(): every put as a record header (the key and the length of the
\* value) followed by the value.
BatchDump(ops) ==
    IF ops = <<>> THEN <<>>
    ELSE <<Tok(1, Head(ops).key, Len(Head(ops).val))>> \o Head(ops).val
            \o BatchDump(Tail(ops))

RECURSIVE BatchLoad(_)
\* Batch.Load(data): the puts read back from a dump; bytes that are no dump
\* are an error.
BatchLoad(data) ==
    IF data = <<>> THEN [ok |-> TRUE, ops |-> <<>>]
    ELSE LET h == Head(data)
             rest == Tail(data)
         IN  IF h.f # 1 \/ h.s = "" \/ h.n < 0 \/ h.n > Len(rest)
             THEN [ok |-> FALSE, ops |-> <<>>]
             ELSE LET more == BatchLoad(SubSeq(rest, h.n + 1, Len(rest)))
                  IN  [ok |-> more.ok,
                       ops |-> IF more.ok
                               THEN <<Put(h.s, SubSeq(rest, 1, h.n))>> \o more.ops
                               ELSE <<>>]

RECURSIVE BatchWrite(_, _)
\* Batch.Write(): the puts applied in order to the contents of the store.
BatchWrite(c, ops) ==
    IF ops = <<>> THEN c
    ELSE BatchWrite(StorePut(c, Head(ops).key, Head(ops).val), Tail(ops))

----------------------------------------------------------------------------
(* The batch protocol *)

BatchWithID(id, b) == [ID |-> id, B |-> b]

BatchItem(id, data) == [Id |-> id, Data |-> data]

MarshalResShortCopy(batchs) ==
    [i \in 1..Len(batchs) |->
        BatchItem(batchs[i].ID,
                  SubSeq(BatchDump(batchs[i].B.ops), 1,
                         Len(BatchDump(batchs[i].B.ops)) - 1))]

RECURSIVE MarshalResMerged(_)
MarshalResMerged(batchs) ==
    IF batchs = <<>> THEN <<>>
    ELSE LET n == Len(batchs)
             rest == MarshalResMerged(SubSeq(batchs, 1, n - 1))
         IN  IF \E i \in 1..(n - 1) : batchs[i].ID = batchs[n].ID
             THEN rest
             ELSE rest \o <<BatchItem(batchs[n].ID, BatchDump(batchs[n].B.ops))>>

\* Marshal, lines 161-169: one item per batch, in order, with a copy of the
\* dump.  The identifiers of the model are int32 values, which the
\* conversion int32(item.ID) leaves as they are.
MarshalRes(batchs) ==
    [i \in 1..Len(batchs) |->
        BatchItem(batchs[i].ID, BatchDump(batchs[i].B.ops))]

RECURSIVE WriteBatchsFromKeepsGoing(_, _, _, _)
WriteBatchsFromKeepsGoing(st, batchs, k, failAt) ==
    IF k > Len(batchs) THEN [store |-> st, err |-> "nil"]
    ELSE IF k = failAt
    THEN [store |-> WriteBatchsFromKeepsGoing(st, batchs, k + 1, failAt).store,
          err |-> "ErrWrite"]
    ELSE WriteBatchsFromKeepsGoing(
             [st EXCEPT ![batchs[k].B.db] = BatchWrite(@, batchs[k].B.ops)],
             batchs, k + 1, failAt)

RECURSIVE WriteBatchsFrom(_, _, _, _)
\* WriteBatchs, lines 197-203, from the k-th batch on.  failAt: the batch
\* whose write fails, 0 when none does.
WriteBatchsFrom(st, batchs, k, failAt) ==
    IF k > Len(batchs) THEN [store |-> st, err |-> "nil"]
    ELSE IF k = failAt THEN [store |-> st, err |-> "ErrWrite"]
    ELSE WriteBatchsFrom(
             [st EXCEPT ![batchs[k].B.db] = BatchWrite(@, batchs[k].B.ops)],
             batchs, k + 1, failAt)

WriteBatchsRes(st, batchs, failAt) == WriteBatchsFrom(st, batchs, 1, failAt)

ItemResFirstHandle(d, st, item, writeOk) ==
    IF DOMAIN d = {} THEN [store |-> st, err |-> "panic"]
    ELSE IF ~BatchLoad(item.Data).ok THEN [store |-> st, err |-> "ErrLoad"]
    ELSE IF ~writeOk THEN [store |-> st, err |-> "ErrWrite"]
    ELSE [store |-> [st EXCEPT ![d[CHOOSE x \in DOMAIN d : TRUE].db] =
                        BatchWrite(@, BatchLoad(item.Data).ops)],
          err |-> "nil"]

\* WriteBatchItems, lines 210-217, for one item.  The handle of an
\* identifier that is not in the map is the zero dbWrap, whose db is nil:
\* NewBatch on it is a nil dereference.
ItemRes(d, st, item, writeOk) ==
    IF item.Id \notin DOMAIN d THEN [store |-> st, err |-> "panic"]
    ELSE IF ~BatchLoad(item.Data).ok THEN [store |-> st, err |-> "ErrLoad"]
    ELSE IF ~writeOk THEN [store |-> st, err |-> "ErrWrite"]
    ELSE [store |-> [st EXCEPT ![d[item.Id].db] =
                        BatchWrite(@, BatchLoad(item.Data).ops)],
          err |-> "nil"]

RECURSIVE WriteBatchItemsFromSkipsBad(_, _, _, _, _)
WriteBatchItemsFromSkipsBad(d, st, items, k, failAt) ==
    IF k > Len(items) THEN [store |-> st, err |-> "nil"]
    ELSE LET r == ItemRes(d, st, items[k], k # failAt)
         IN  IF r.err = "panic" THEN r
             ELSE IF r.err # "nil"
             THEN [store |-> WriteBatchItemsFromSkipsBad(d, st, items, k + 1,
                                                        failAt).store,
                   err |-> r.err]
             ELSE WriteBatchItemsFromSkipsBad(d, r.store, items, k + 1, failAt)

RECURSIVE WriteBatchItemsFrom(_, _, _, _, _)
\* WriteBatchItems, lines 209-219, from the k-th item on.
WriteBatchItemsFrom(d, st, items, k, failAt) ==
    IF k > Len(items) THEN [store |-> st, err |-> "nil"]
    ELSE LET r == ItemRes(d, st, items[k], k # failAt)
         IN  IF r.err # "nil" THEN r
             ELSE WriteBatchItemsFrom(d, r.store, items, k + 1, failAt)

WriteBatchItemsRes(d, st, items, failAt) ==
    WriteBatchItemsFrom(d, st, items, 1, failAt)

----------------------------------------------------------------------------
(* State before a call, as recorded in last.pre *)

\* sync.RWMutex: the writer that holds or awaits the lock, and the readers
\* that hold it.
Unlocked == [writer |-> "none", readers |-> {}]

NoCall == [op |-> "none", arg |-> <<>>, ret |-> <<>>, pre |-> <<>>]

NoHist ==
    [distinct |-> TRUE, regs |-> <<>>, metaReg |-> FALSE,
     ckptSet |-> FALSE, ckpt |-> ZeroBlockInfo]

Pre == [dbs |-> dbs, metaDBID |-> metaDBID, store |-> store, hist |-> hist]

\* hist after a Register call that returned: distinct holds while every call
\* so far was a Register with a new identifier; regs keeps what each of them
\* registered; metaReg: some Register with isMetaDB returned normally.
\* ckptSet: the last write to a store was a WriteBlockInfo that returned nil,
\* and ckpt is the record it wrote.
HistRegister(id, path, dbType, db, isMetaDB) ==
    LET ok == hist.distinct /\ id \notin DOMAIN hist.regs
    IN  [hist EXCEPT
           !.distinct = ok,
           !.regs = IF ok THEN MapPut(hist.regs, id,
                                 dbWrap(id, db, path, dbType, isMetaDB))
                          ELSE <<>>,
           !.metaReg = hist.metaReg \/ isMetaDB]

HistOther == [hist EXCEPT !.distinct = FALSE, !.regs = <<>>]

\* The batches a caller holds in memory, named by the identifier of the store
\* each was made for.
Sources == {1, 2}

\* ops: the pending operations of each in-memory batch; items: the wire
\* items of the last Marshal; made: what those items were when it returned.
NoMem == [ops |-> [b \in Sources |-> <<>>], items |-> <<>>, made |-> <<>>]

Init ==
    /\ dbs = NewDBPool.dbs
    /\ metaDBID = NewDBPool.metaDBID
    /\ store = [s \in Instances |-> <<>>]
    /\ aborted = FALSE
    /\ last = NoCall
    /\ hist = NoHist
    /\ thr = <<>>
    /\ rw = Unlocked
    /\ mem = NoMem

----------------------------------------------------------------------------
(* Registry operations, one call each *)

\* No call is in progress and the process is alive.
Idle == ~aborted /\ last = NoCall

\* The caller takes the result of the call that completed.
Return ==
    /\ ~aborted
    /\ UNCHANGED <<conc, mem>>
    /\ last # NoCall
    /\ last' = NoCall
    /\ UNCHANGED <<dbs, metaDBID, store, aborted, hist>>

Register ==
    /\ Idle
    /\ UNCHANGED <<conc, mem>>
    /\ \E id \in IDs, path \in Paths, dbType \in DbTypes, db \in Instances,
          isMetaDB \in BOOLEAN :
         LET r == RegisterRes(dbs, metaDBID, id, path, dbType, db, isMetaDB)
         IN  /\ dbs' = r.dbs
             /\ metaDBID' = r.metaDBID
             /\ aborted' = r.panic
             /\ last' = [op |-> "Register",
                         arg |-> [id |-> id, path |-> path, dbType |-> dbType,
                                  db |-> db, isMetaDB |-> isMetaDB],
                         ret |-> [err |-> IF r.panic THEN "panic" ELSE "nil"],
                         pre |-> Pre]
             /\ hist' = IF r.panic THEN hist
                        ELSE HistRegister(id, path, dbType, db, isMetaDB)
    /\ UNCHANGED store

Open ==
    /\ Idle
    /\ UNCHANGED <<conc, mem>>
    /\ \E id \in IDs, path \in Paths, dbType \in DbTypes, isMeta \in BOOLEAN,
          newOk \in BOOLEAN :
         LET info == [Id |-> id, DbType |-> dbType, DbPath |-> path,
                      IsMeta |-> isMeta]
             r == OpenRes(dbs, metaDBID, info, newOk)
         IN  /\ dbs' = r.dbs
             /\ metaDBID' = r.metaDBID
             /\ last' = [op |-> "Open", arg |-> info,
                         ret |-> [err |-> r.err, opened |-> r.opened],
                         pre |-> Pre]
    /\ hist' = HistOther
    /\ UNCHANGED <<store, aborted>>

GetDB ==
    /\ Idle
    /\ UNCHANGED <<conc, mem>>
    /\ \E id \in IDs :
         last' = [op |-> "GetDB", arg |-> [id |-> id],
                  ret |-> GetDBRes(dbs, id), pre |-> Pre]
    /\ UNCHANGED <<dbs, metaDBID, store, aborted, hist>>

GetDBID ==
    /\ Idle
    /\ UNCHANGED <<conc, mem>>
    /\ \E path \in Paths :
         \/ /\ GetDBIDMatches(dbs, path) = {}
            /\ last' = [op |-> "GetDBID", arg |-> [path |-> path],
                        ret |-> [id |-> -1, err |-> "ErrNotFound"], pre |-> Pre]
         \/ \E x \in GetDBIDMatches(dbs, path) :
              last' = [op |-> "GetDBID", arg |-> [path |-> path],
                       ret |-> [id |-> dbs[x].id, err |-> "nil"], pre |-> Pre]
    /\ UNCHANGED <<dbs, metaDBID, store, aborted, hist>>

GetDBInfo ==
    /\ Idle
    /\ UNCHANGED <<conc, mem>>
    /\ \E order \in Orders(DOMAIN dbs) :
         last' = [op |-> "GetDBInfo", arg |-> <<>>,
                  ret |-> GetDBInfoRes(dbs, metaDBID, order), pre |-> Pre]
    /\ UNCHANGED <<dbs, metaDBID, store, aborted, hist>>

Next == Register \/ Open \/ GetDB \/ GetDBID \/ GetDBInfo \/ Return

Spec == Init /\ [][Next]_vars

----------------------------------------------------------------------------
(* Claims about the registry, checked under Spec *)

MetaFlagged(d) == {x \in DOMAIN d : d[x].isMeta}

\* C1: in every state a sequence of Register and Open calls reaches (error
\* returns of Open and overwriting Register calls included), at most one
\* handle of dbs has isMeta set, and when metaDBID is not the sentinel, dbs
\* holds a handle at metaDBID and that handle is the flagged one.  Stated for
\* the registries of a live process that hold no handle at the sentinel
\* identifier.
C1_SingleMetaHandle ==
    (~aborted /\ MinInt32 \notin DOMAIN dbs) =>
        /\ Cardinality(MetaFlagged(dbs)) <= 1
        /\ metaDBID # MinInt32 =>
               metaDBID \in DOMAIN dbs /\ dbs[metaDBID].isMeta

\* What listDescriptors returns holds exactly one descriptor per handle of
\* regs, the descriptor of that handle, and none for another identifier.
OneDescriptorEach(info, regs) ==
    /\ Len(info) = Cardinality(DOMAIN regs)
    /\ \A i \in 1..Len(info) :
          /\ info[i].Id \in DOMAIN regs
          /\ info[i] = DBInfoOf(info[i].Id, regs[info[i].Id])
    /\ \A id \in DOMAIN regs :
          Cardinality({i \in 1..Len(info) : info[i].Id = id}) = 1

GetDBFindsRegistered ==
    (last.op = "GetDB" /\ last.arg.id \in DOMAIN hist.regs) =>
        last.ret = [db |-> hist.regs[last.arg.id].db, err |-> "nil"]

\* C4 as written: after Register calls with pairwise distinct identifiers,
\* GetDB finds every registered identifier with the instance registered
\* under it, and GetDBInfo returns exactly one descriptor per registered
\* identifier.  Stated for at least one Register call.
C4_DistinctRegistersListed ==
    (hist.distinct /\ DOMAIN hist.regs # {}) =>
        /\ GetDBFindsRegistered
        /\ last.op = "GetDBInfo" =>
               /\ last.ret.err = "nil"
               /\ OneDescriptorEach(last.ret.info, hist.regs)

\* C4 amended: GetDBInfo returns the descriptors only when metaDBID is not
\* the sentinel, and ErrNoMetaDBRegistered when it is.
C4_DistinctRegistersListedIfMeta ==
    hist.distinct =>
        /\ GetDBFindsRegistered
        /\ last.op = "GetDBInfo" =>
               IF last.pre.metaDBID = MinInt32
               THEN last.ret.err = "ErrNoMetaDBRegistered"
               ELSE /\ last.ret.err = "nil"
                    /\ OneDescriptorEach(last.ret.info, hist.regs)

C4_Witness ==
    /\ hist.distinct
    /\ Cardinality(DOMAIN hist.regs) = 2
    /\ last.op = "GetDBInfo"
    /\ last.ret.err = "nil"

\* C5: a Register call with isMetaDB, made after a Register call with
\* isMetaDB has returned, panics, whatever the two identifiers.
C5_SecondMetaRegisterPanics ==
    (last.op = "Register" /\ last.arg.isMetaDB /\ last.pre.hist.metaReg) =>
        last.ret.err = "panic"

\* The case of C6: Open of an identifier that is absent, with the path of a
\* handle of the same engine type.
C6_Case ==
    /\ last.op = "Open"
    /\ last.arg.Id \notin DOMAIN last.pre.dbs
    /\ \E x \in DOMAIN last.pre.dbs :
          /\ last.pre.dbs[x].path = last.arg.DbPath
          /\ last.pre.dbs[x].dbType = last.arg.DbType

\* C6: in that case Open returns nil, opens no store instance, leaves dbs
\* and metaDBID as they were, and GetDB of the identifier is ErrNotFound.
C6_OpenSamePathNoOp ==
    C6_Case =>
        /\ last.ret.err = "nil"
        /\ ~last.ret.opened
        /\ dbs = last.pre.dbs
        /\ metaDBID = last.pre.metaDBID
        /\ GetDBRes(dbs, last.arg.Id).err = "ErrNotFound"

C6_Witness == C6_Case /\ last.arg.DbType = "leveldb" /\ last.arg.IsMeta

----------------------------------------------------------------------------
(* Checkpoint operations, on a pool that startup has set up *)

RegisterCall(id, path, dbType, db, isMetaDB) ==
    [id |-> id, path |-> path, dbType |-> dbType, db |-> db,
     isMetaDB |-> isMetaDB]

RECURSIVE PoolAfter(_, _)
\* The pool after the Register calls of a sequence, none of which panics.
PoolAfter(pool, calls) ==
    IF calls = <<>> THEN pool
    ELSE LET c == Head(calls)
             r == RegisterRes(pool.dbs, pool.metaDBID, c.id, c.path, c.dbType,
                              c.db, c.isMetaDB)
         IN  PoolAfter([dbs |-> r.dbs, metaDBID |-> r.metaDBID], Tail(calls))

\* Startup sequences: no store, a store that is not the metadata store, the
\* metadata store alone, the metadata store at the sentinel identifier, and
\* a data store with the metadata store.
StartupCalls ==
    { <<>>,
      <<RegisterCall(1, "/a", "leveldb", "storeA", FALSE)>>,
      <<RegisterCall(1, "/a", "leveldb", "storeA", TRUE)>>,
      <<RegisterCall(MinInt32, "/a", "leveldb", "storeA", TRUE)>>,
      <<RegisterCall(1, "/a", "leveldb", "storeA", TRUE),
        RegisterCall(2, "/b", "leveldb", "storeB", FALSE)>> }

InitStarted ==
    /\ \E calls \in StartupCalls :
         /\ dbs = PoolAfter(NewDBPool, calls).dbs
         /\ metaDBID = PoolAfter(NewDBPool, calls).metaDBID
    /\ store = [s \in Instances |-> <<>>]
    /\ aborted = FALSE
    /\ last = NoCall
    /\ hist = [NoHist EXCEPT !.distinct = FALSE]
    /\ thr = <<>>
    /\ rw = Unlocked
    /\ mem = NoMem

GetBlockInfo ==
    /\ Idle
    /\ UNCHANGED <<conc, mem>>
    /\ \E getOk \in BOOLEAN :
         last' = [op |-> "GetBlockInfo", arg |-> [getOk |-> getOk],
                  ret |-> GetBlockInfoRes(dbs, metaDBID, store, getOk),
                  pre |-> Pre]
    /\ UNCHANGED <<dbs, metaDBID, store, aborted, hist>>

WriteBlockInfo ==
    /\ Idle
    /\ UNCHANGED <<conc, mem>>
    /\ \E header \in BlockInfos, writeOk \in BOOLEAN :
         LET r == WriteBlockInfoRes(dbs, metaDBID, store, header, writeOk)
         IN  /\ store' = r.store
             /\ aborted' = (r.err = "panic")
             /\ last' = [op |-> "WriteBlockInfo",
                         arg |-> [header |-> header, writeOk |-> writeOk],
                         ret |-> [err |-> r.err], pre |-> Pre]
             /\ hist' = IF r.err = "nil"
                        THEN [hist EXCEPT !.ckptSet = TRUE, !.ckpt = header]
                        ELSE hist
    /\ UNCHANGED <<dbs, metaDBID>>

\* Values a batch may put under the checkpoint key: no bytes, and bytes that
\* are not a serialized BlockInfo.
CkptKeyValues == {<<>>, <<Tok(0, "junk", 0)>>}

\* WriteBatchs, lines 194-204, called with one batch that puts a value under
\* the checkpoint key of a store registered as the metadata store.
WriteBatchsCkptKey ==
    /\ Idle
    /\ UNCHANGED <<conc, mem>>
    /\ \E id \in MetaFlagged(dbs), val \in CkptKeyValues, failAt \in 0..1 :
         LET batchs == <<BatchWithID(id, Batch(dbs[id].db,
                                               <<Put(LastBlockInfo, val)>>))>>
             r == WriteBatchsRes(store, batchs, failAt)
         IN  /\ store' = r.store
             /\ last' = [op |-> "WriteBatchs",
                         arg |-> [batchs |-> batchs, failAt |-> failAt],
                         ret |-> [err |-> r.err], pre |-> Pre]
    /\ hist' = [hist EXCEPT !.ckptSet = FALSE, !.ckpt = ZeroBlockInfo]
    /\ UNCHANGED <<dbs, metaDBID, aborted>>

NextCkpt == WriteBlockInfo \/ GetBlockInfo \/ WriteBatchsCkptKey \/ Return

SpecCkpt == InitStarted /\ [][NextCkpt]_vars

----------------------------------------------------------------------------
(* Batch operations, on a pool that startup has set up *)

V1 == <<Tok(0, "v1", 0)>>

V2 == <<Tok(0, "v2", 0)>>

\* The pending puts of the batches: none, one put, and two puts of one key.
OpSeqs == {<<>>, <<Put("k", V1)>>, <<Put("k", V1), Put("k", V2)>>}

ItemIDs == {1, 2}

\* The store a caller builds its batches on for an identifier.
StoreOf(id) == IF id = 1 THEN "storeA" ELSE "storeB"

BatchWithIDs ==
    {BatchWithID(id, Batch(StoreOf(id), ops)) : id \in ItemIDs, ops \in OpSeqs}

\* Bytes that are no dump: the value is shorter than its header says.
Truncated == <<Tok(1, "k", 1)>>

BatchItems ==
    {BatchItem(id, data) :
        id \in ItemIDs, data \in {BatchDump(ops) : ops \in OpSeqs} \cup {Truncated}}

SeqsUpTo(S, n) == UNION {[1..m -> S] : m \in 0..n}

HistWrite == [hist EXCEPT !.distinct = FALSE, !.regs = <<>>, !.ckptSet = FALSE]

Marshal ==
    /\ Idle
    /\ UNCHANGED <<conc, mem>>
    /\ \E batchs \in SeqsUpTo(BatchWithIDs, MaxItems) :
         last' = [op |-> "Marshal", arg |-> [batchs |-> batchs],
                  ret |-> [batchItems |-> MarshalRes(batchs), err |-> "nil"],
                  pre |-> Pre]
    /\ UNCHANGED <<dbs, metaDBID, store, aborted, hist>>

WriteBatchs ==
    /\ Idle
    /\ UNCHANGED <<conc, mem>>
    /\ \E batchs \in SeqsUpTo(BatchWithIDs, MaxItems) :
         \E failAt \in 0..Len(batchs) :
           LET r == WriteBatchsRes(store, batchs, failAt)
           IN  /\ store' = r.store
               /\ last' = [op |-> "WriteBatchs",
                           arg |-> [batchs |-> batchs, failAt |-> failAt],
                           ret |-> [err |-> r.err], pre |-> Pre]
    /\ hist' = HistWrite
    /\ UNCHANGED <<dbs, metaDBID, aborted>>

WriteBatchItems ==
    /\ Idle
    /\ UNCHANGED <<conc, mem>>
    /\ \E items \in SeqsUpTo(BatchItems, MaxItems) :
         \E failAt \in 0..Len(items) :
           LET r == WriteBatchItemsRes(dbs, store, items, failAt)
           IN  /\ store' = r.store
               /\ aborted' = (r.err = "panic")
               /\ last' = [op |-> "WriteBatchItems",
                           arg |-> [items |-> items, failAt |-> failAt],
                           ret |-> [err |-> r.err], pre |-> Pre]
    /\ hist' = HistWrite
    /\ UNCHANGED <<dbs, metaDBID>>

NextBatch == Marshal \/ WriteBatchs \/ WriteBatchItems \/ Return

SpecBatch == InitStarted /\ [][NextBatch]_vars

----------------------------------------------------------------------------
(* Marshal and the batches its items are made of *)

\* A byte slice: its own bytes when alias is 0, otherwise a view of the
\* buffer of the in-memory batch alias.
Slice(alias, bytes) == [alias |-> alias, bytes |-> bytes]

\* The bytes read through a slice.
SliceBytes(sl, ops) ==
    IF sl.alias = 0 THEN sl.bytes ELSE BatchDump(ops[sl.alias])

\* Batch.Dump: the batch's own buffer, not a copy of it.
Dump(b) == Slice(b, <<>>)

CopySliceShares(sl, ops) == sl

\* Marshal, lines 162-163: tmp is a new slice with the bytes sl has now.
CopySlice(sl, ops) == Slice(0, SliceBytes(sl, ops))

\* The pairs given to Marshal: one of the caller's batches with the
\* identifier of its store.
SourcePairs == {[ID |-> b, B |-> b] : b \in Sources}

\* Marshal, lines 158-170, on batches the caller keeps.
MarshalSources ==
    /\ Idle
    /\ UNCHANGED conc
    /\ \E batchs \in SeqsUpTo(SourcePairs, MaxItems) :
         LET items == [k \in 1..Len(batchs) |->
                          BatchItem(batchs[k].ID,
                                    CopySlice(Dump(batchs[k].B), mem.ops))]
         IN  mem' = [mem EXCEPT
                 !.items = items,
                 !.made = [k \in 1..Len(batchs) |->
                              [Id |-> items[k].Id,
                               Data |-> SliceBytes(items[k].Data, mem.ops),
                               B |-> batchs[k].B]]]
    /\ UNCHANGED <<dbs, metaDBID, store, aborted, last, hist>>

\* Batch.Put on a batch the caller keeps.
SourcePut ==
    /\ Idle
    /\ UNCHANGED conc
    /\ \E b \in Sources, op \in {Put("k", V1), Put("k", V2)} :
         /\ Append(mem.ops[b], op) \in OpSeqs
         /\ mem' = [mem EXCEPT !.ops[b] = Append(@, op)]
    /\ UNCHANGED <<dbs, metaDBID, store, aborted, last, hist>>

\* Batch.Reset on a batch the caller keeps.
SourceReset ==
    /\ Idle
    /\ UNCHANGED conc
    /\ \E b \in Sources :
         /\ mem.ops[b] # <<>>
         /\ mem' = [mem EXCEPT !.ops[b] = <<>>]
    /\ UNCHANGED <<dbs, metaDBID, store, aborted, last, hist>>

\* Batch.Write on a batch the caller keeps: the store takes the operations,
\* the batch keeps them.
SourceWrite ==
    /\ Idle
    /\ UNCHANGED conc
    /\ \E b \in Sources :
         /\ mem.ops[b] # <<>>
         /\ store' = [store EXCEPT
                         ![StoreOf(b)] = BatchWrite(@, mem.ops[b])]
    /\ UNCHANGED <<dbs, metaDBID, aborted, last, hist, mem>>

NextMem == MarshalSources \/ SourcePut \/ SourceReset \/ SourceWrite

\* The pool with the stores of both batches registered.
InitMem == InitStarted /\ DOMAIN dbs = Sources

SpecMem == InitMem /\ [][NextMem]_vars


----------------------------------------------------------------------------
(* Claims about the checkpoint protocol, checked under SpecCkpt *)

\* C3: with a metadata store designated, a GetBlockInfo that follows a
\* WriteBlockInfo(r) that returned nil, with no other checkpoint write in
\* between, returns a record equal to r in every field, for every r.
C3_ReadReturnsWritten ==
    (last.op = "GetBlockInfo" /\ last.arg.getOk /\ last.pre.hist.ckptSet) =>
        /\ last.ret.err = "nil"
        /\ last.ret.hasHeader
        /\ last.ret.header = last.pre.hist.ckpt

\* C8: when metaDBID is the sentinel, WriteBlockInfo returns
\* ErrNoMetaDBRegistered for every record and writes nothing: every store and
\* the registry are as before the call.
C8_WriteWithoutMetaStore ==
    (last.op = "WriteBlockInfo" /\ last.pre.metaDBID = MinInt32) =>
        /\ last.ret.err = "ErrNoMetaDBRegistered"
        /\ store = last.pre.store
        /\ dbs = last.pre.dbs
        /\ metaDBID = last.pre.metaDBID
        /\ ~aborted

C8_Witness ==
    /\ last.op = "WriteBlockInfo"
    /\ last.pre.metaDBID = MinInt32
    /\ DOMAIN last.pre.dbs # {}
    /\ last.arg.header.BlockNum = 42
    /\ last.arg.writeOk
    /\ last.ret.err = "ErrNoMetaDBRegistered"

----------------------------------------------------------------------------
(* Claims about the batch protocol, checked under SpecBatch *)

RECURSIVE ItemsApplied(_, _, _)
\* The stores after the batches of the items have been written, each to the
\* store registered under the identifier of its item.
ItemsApplied(d, st, items) ==
    IF items = <<>> THEN st
    ELSE ItemsApplied(d,
             [st EXCEPT ![d[Head(items).Id].db] =
                 BatchWrite(@, BatchLoad(Head(items).Data).ops)],
             Tail(items))

\* k is the first position of items whose identifier is not registered, and
\* every item before it loads and is written without a store failure.
FirstUnregistered(d, items, failAt, k) ==
    /\ k \in 1..Len(items)
    /\ items[k].Id \notin DOMAIN d
    /\ \A j \in 1..(k - 1) :
          items[j].Id \in DOMAIN d /\ BatchLoad(items[j].Data).ok /\ j # failAt

\* C2: when position k is the first item of WriteBatchItems whose identifier
\* is not registered, the items before k are written to their stores, the
\* call returns the not-found error (no crash, no success) and no item at or
\* after k is written.  Stated for the sequences that have an item before k
\* and an item after it.
C2_UnregisteredIsNotFound ==
    last.op = "WriteBatchItems" =>
        \A k \in 2..(Len(last.arg.items) - 1) :
            FirstUnregistered(last.pre.dbs, last.arg.items, last.arg.failAt, k) =>
                /\ last.ret.err = "ErrNotFound"
                /\ ~aborted
                /\ store = ItemsApplied(last.pre.dbs, last.pre.store,
                                        SubSeq(last.arg.items, 1, k - 1))

\* The case of C7: WriteBatchItems of what Marshal makes of one batch bw,
\* built on the store registered under its identifier, with no store failure.
C7_Case(bw) ==
    /\ last.op = "WriteBatchItems"
    /\ last.arg.items = MarshalRes(<<bw>>)
    /\ last.arg.failAt = 0
    /\ bw.ID \in DOMAIN last.pre.dbs
    /\ last.pre.dbs[bw.ID].db = bw.B.db

\* C7: Marshal of a batch of store i followed by WriteBatchItems leaves the
\* stores as WriteBatchs of that batch leaves them from the same state.
C7_WireRoundTrip ==
    \A bw \in BatchWithIDs :
        C7_Case(bw) =>
            /\ last.ret.err = "nil"
            /\ store = WriteBatchsRes(last.pre.store, <<bw>>, 0).store

C7_Witness ==
    \E bw \in BatchWithIDs :
        /\ C7_Case(bw)
        /\ Len(bw.B.ops) = 2
        /\ store # last.pre.store

RECURSIVE BatchesApplied(_, _)
\* The stores after every batch of a sequence has been written, in order.
BatchesApplied(st, batchs) ==
    IF batchs = <<>> THEN st
    ELSE BatchesApplied(
             [st EXCEPT ![Head(batchs).B.db] = BatchWrite(@, Head(batchs).B.ops)],
             Tail(batchs))

\* C10: WriteBatchs writes the batches in order and stops at the first one
\* whose write fails: it returns that error with exactly the batches before
\* it written; when no write fails it returns nil with every batch written.
C10_StopsAtFirstFailure ==
    last.op = "WriteBatchs" =>
        IF last.arg.failAt = 0
        THEN /\ last.ret.err = "nil"
             /\ store = BatchesApplied(last.pre.store, last.arg.batchs)
        ELSE /\ last.ret.err = "ErrWrite"
             /\ store = BatchesApplied(last.pre.store,
                            SubSeq(last.arg.batchs, 1, last.arg.failAt - 1))

\* A failure at the second of three batches, where the first changed a store
\* and the third would have changed one too.
C10_Witness ==
    /\ last.op = "WriteBatchs"
    /\ Len(last.arg.batchs) = 3
    /\ last.arg.failAt = 2
    /\ store # last.pre.store
    /\ store # BatchesApplied(last.pre.store, last.arg.batchs)

----------------------------------------------------------------------------
(* Concurrent callers.  Each thread makes one call, WriteBatchItems or      *)
(* Register, and takes the pool's lock as the code does; a step is one      *)
(* lock operation, one item of WriteBatchItems, or one statement group of   *)
(* Register.                                                                *)

Threads == {"t1", "t2"}

IdleThread == [pc |-> "idle", op |-> "none", arg |-> <<>>, i |-> 0, err |-> "nil"]

ConcItems ==
    {BatchItem(id, BatchDump(ops)) : id \in ItemIDs, ops \in OpSeqs \ {<<>>}}

\* The item sequences of the concurrent calls: one or two items.
ConcItemSeqs == [1..1 -> ConcItems] \cup [1..2 -> ConcItems]

ConcRegisterCalls ==
    { RegisterCall(2, "/b", "leveldb", "storeA", FALSE),
      RegisterCall(2, "/b", "leveldb", "storeB", TRUE) }

\* The descriptor of the concurrent Open calls.
ConcOpenInfo == [Id |-> 2, DbType |-> "leveldb", DbPath |-> "/b", IsMeta |-> TRUE]

InitConc ==
    /\ \E calls \in {<<RegisterCall(1, "/a", "leveldb", "storeA", TRUE),
                       RegisterCall(2, "/b", "leveldb", "storeB", FALSE)>>,
                     <<RegisterCall(1, "/a", "leveldb", "storeA", FALSE)>>} :
         /\ dbs = PoolAfter(NewDBPool, calls).dbs
         /\ metaDBID = PoolAfter(NewDBPool, calls).metaDBID
    /\ store = [s \in Instances |-> <<>>]
    /\ aborted = FALSE
    /\ last = NoCall
    /\ hist = [NoHist EXCEPT !.distinct = FALSE]
    /\ thr = [t \in Threads |-> IdleThread]
    /\ rw = Unlocked
    /\ mem = NoMem

CanRLockAlways(l) == TRUE

\* RLock, line 207: a reader waits while a writer holds or awaits the lock.
CanRLock(l) == l.writer = "none"

CanLockNever(l) == FALSE

\* Lock, line 43: one writer at a time announces itself ...
CanLock(l) == l.writer = "none"

\* ... and waits until the readers that hold the lock have left.
CanEnter(l) == l.readers = {}

CallWriteBatchItems ==
    /\ ~aborted
    /\ \E t \in Threads, items \in ConcItemSeqs :
         /\ thr[t].pc = "idle"
         /\ thr' = [thr EXCEPT ![t] = [pc |-> "rlock", op |-> "WriteBatchItems",
                                       arg |-> items, i |-> 1, err |-> "nil"]]
    /\ UNCHANGED <<dbs, metaDBID, store, aborted, last, hist, mem, rw>>

CallRegister ==
    /\ ~aborted
    /\ \E t \in Threads, c \in ConcRegisterCalls :
         /\ thr[t].pc = "idle"
         /\ thr' = [thr EXCEPT ![t] = [pc |-> "lock", op |-> "Register",
                                       arg |-> c, i |-> 0, err |-> "nil"]]
    /\ UNCHANGED <<dbs, metaDBID, store, aborted, last, hist, mem, rw>>

CallOpen ==
    /\ ~aborted
    /\ \E t \in Threads :
         /\ thr[t].pc = "idle"
         /\ thr' = [thr EXCEPT ![t] = [pc |-> "lock", op |-> "Open",
                                       arg |-> ConcOpenInfo, i |-> 0,
                                       err |-> "nil"]]
    /\ UNCHANGED <<dbs, metaDBID, store, aborted, last, hist, mem, rw>>

CallGetDBInfo ==
    /\ ~aborted
    /\ \E t \in Threads :
         /\ thr[t].pc = "idle"
         /\ thr' = [thr EXCEPT ![t] = [pc |-> "rlock", op |-> "GetDBInfo",
                                       arg |-> <<>>, i |-> 0, err |-> "nil"]]
    /\ UNCHANGED <<dbs, metaDBID, store, aborted, last, hist, mem, rw>>

\* p.RLock()
RLock ==
    /\ ~aborted
    /\ \E t \in Threads :
         /\ thr[t].pc = "rlock"
         /\ CanRLock(rw)
         /\ rw' = [rw EXCEPT !.readers = @ \cup {t}]
         /\ thr' = [thr EXCEPT ![t].pc = IF thr[t].op = "WriteBatchItems"
                                         THEN "loop" ELSE "read"]
    /\ UNCHANGED <<dbs, metaDBID, store, aborted, last, hist, mem>>

\* One turn of the loop of WriteBatchItems: the next item, or the return
\* after the last one.
ItemStep ==
    /\ ~aborted
    /\ \E t \in Threads, writeOk \in BOOLEAN :
         /\ thr[t].pc = "loop"
         /\ IF thr[t].i > Len(thr[t].arg)
            THEN /\ thr' = [thr EXCEPT ![t].pc = "runlock"]
                 /\ UNCHANGED store
            ELSE LET r == ItemRes(dbs, store, thr[t].arg[thr[t].i], writeOk)
                 IN  /\ store' = r.store
                     /\ thr' = [thr EXCEPT
                                  ![t].pc = IF r.err = "nil" THEN "loop"
                                            ELSE "runlock",
                                  ![t].i = @ + 1,
                                  ![t].err = r.err]
    /\ UNCHANGED <<dbs, metaDBID, aborted, last, hist, mem, rw>>

\* GetDBInfo, lines 122-134: what the call reads of the map and of the
\* designation goes to arg, its error to err.
ReadInfo ==
    /\ ~aborted
    /\ \E t \in Threads, order \in Orders(DOMAIN dbs) :
         /\ thr[t].pc = "read"
         /\ thr' = [thr EXCEPT
                      ![t].pc = "runlock",
                      ![t].arg = [flagged |-> MetaFlagged(dbs),
                                  metaDBID |-> metaDBID],
                      ![t].err = GetDBInfoRes(dbs, metaDBID, order).err]
    /\ UNCHANGED <<dbs, metaDBID, store, aborted, last, hist, mem, rw>>

\* The deferred p.RUnlock(); a panic then ends the process.
RUnlock ==
    /\ ~aborted
    /\ \E t \in Threads :
         /\ thr[t].pc = "runlock"
         /\ rw' = [rw EXCEPT !.readers = @ \ {t}]
         /\ thr' = [thr EXCEPT ![t].pc = "done"]
         /\ aborted' = (thr[t].err = "panic")
    /\ UNCHANGED <<dbs, metaDBID, store, last, hist, mem>>

\* p.Lock(): the writer announces itself.
Lock ==
    /\ ~aborted
    /\ \E t \in Threads :
         /\ thr[t].pc = "lock"
         /\ CanLock(rw)
         /\ rw' = [rw EXCEPT !.writer = t]
         /\ thr' = [thr EXCEPT ![t].pc = "enter"]
    /\ UNCHANGED <<dbs, metaDBID, store, aborted, last, hist, mem>>

\* p.Lock() returns once no reader holds the lock.
LockEnter ==
    /\ ~aborted
    /\ \E t \in Threads :
         /\ thr[t].pc = "enter"
         /\ CanEnter(rw)
         /\ thr' = [thr EXCEPT ![t].pc = "insert"]
    /\ UNCHANGED <<dbs, metaDBID, store, aborted, last, hist, mem, rw>>

\* Register, lines 45-51: the handle is put in the map.
RegisterInsert ==
    /\ ~aborted
    /\ \E t \in Threads :
         /\ thr[t].pc = "insert"
         /\ thr[t].op = "Register"
         /\ LET c == thr[t].arg
            IN  dbs' = RegisterRes(dbs, metaDBID, c.id, c.path, c.dbType, c.db,
                                   c.isMetaDB).dbs
         /\ thr' = [thr EXCEPT ![t].pc = "designate"]
    /\ UNCHANGED <<metaDBID, store, aborted, last, hist, mem, rw>>

\* Register, lines 52-57: the panic or the designation.
RegisterDesignate ==
    /\ ~aborted
    /\ \E t \in Threads :
         /\ thr[t].pc = "designate"
         /\ thr[t].op = "Register"
         /\ LET c == thr[t].arg
                r == RegisterRes(dbs, metaDBID, c.id, c.path, c.dbType, c.db,
                                 c.isMetaDB)
            IN  /\ metaDBID' = r.metaDBID
                /\ thr' = [thr EXCEPT ![t].pc = "unlock",
                                      ![t].err = IF r.panic THEN "panic" ELSE "nil"]
    /\ UNCHANGED <<dbs, store, aborted, last, hist, mem, rw>>

\* Open, lines 63-83: the returns that insert nothing, or the new handle
\* put in the map.
OpenInsert ==
    /\ ~aborted
    /\ \E t \in Threads, newOk \in BOOLEAN :
         /\ thr[t].pc = "insert"
         /\ thr[t].op = "Open"
         /\ LET r == OpenRes(dbs, metaDBID, thr[t].arg, newOk)
            IN  IF r.opened
                THEN /\ dbs' = r.dbs
                     /\ thr' = [thr EXCEPT ![t].pc = "designate"]
                ELSE /\ dbs' = dbs
                     /\ thr' = [thr EXCEPT ![t].pc = "unlock",
                                           ![t].err = r.err]
    /\ UNCHANGED <<metaDBID, store, aborted, last, hist, mem, rw>>

\* Open, lines 84-91: the error or the designation.
OpenDesignate ==
    /\ ~aborted
    /\ \E t \in Threads :
         /\ thr[t].pc = "designate"
         /\ thr[t].op = "Open"
         /\ IF thr[t].arg.IsMeta /\ metaDBID # MinInt32
            THEN /\ metaDBID' = metaDBID
                 /\ thr' = [thr EXCEPT ![t].pc = "unlock",
                                       ![t].err = "ErrMetaDBAlreadyRegistered"]
            ELSE /\ metaDBID' = IF thr[t].arg.IsMeta THEN thr[t].arg.Id
                                ELSE metaDBID
                 /\ thr' = [thr EXCEPT ![t].pc = "unlock"]
    /\ UNCHANGED <<dbs, store, aborted, last, hist, mem, rw>>

\* The deferred p.Unlock(); a panic then ends the process.
Unlock ==
    /\ ~aborted
    /\ \E t \in Threads :
         /\ thr[t].pc = "unlock"
         /\ rw' = [rw EXCEPT !.writer = "none"]
         /\ thr' = [thr EXCEPT ![t].pc = "done"]
         /\ aborted' = (thr[t].err = "panic")
    /\ UNCHANGED <<dbs, metaDBID, store, last, hist, mem>>

NextConc ==
    \/ CallWriteBatchItems \/ CallRegister \/ CallOpen \/ CallGetDBInfo
    \/ RLock \/ ItemStep \/ ReadInfo \/ RUnlock
    \/ Lock \/ LockEnter \/ RegisterInsert \/ RegisterDesignate
    \/ OpenInsert \/ OpenDesignate \/ Unlock

SpecConc == InitConc /\ [][NextConc]_vars

\* The steps of the calls in progress: every step of NextConc but the calls
\* themselves.
CallSteps ==
    \/ RLock \/ ItemStep \/ ReadInfo \/ RUnlock
    \/ Lock \/ LockEnter \/ RegisterInsert \/ RegisterDesignate
    \/ OpenInsert \/ OpenDesignate \/ Unlock

\* The scheduler runs a thread that can take a step, and every call of the
\* store engine returns: a call in progress is not left waiting forever
\* while one of its steps can be taken.
SpecConcFair == SpecConc /\ WF_vars(CallSteps)

----------------------------------------------------------------------------
(* Claims about concurrent calls, checked under SpecConc *)

ItemIds(items) == {items[i].Id : i \in 1..Len(items)}

TargetStores(items) == {dbs[id].db : id \in ItemIds(items) \cap DOMAIN dbs}

\* The case of C9: every thread is in a WriteBatchItems call, and the calls
\* of two threads are on disjoint registered identifiers, of different
\* stores.
C9_Case ==
    /\ \A t \in Threads :
          thr[t].op = "WriteBatchItems" /\ ItemIds(thr[t].arg) \subseteq DOMAIN dbs
    /\ \A t, u \in Threads :
          t # u => /\ ItemIds(thr[t].arg) \cap ItemIds(thr[u].arg) = {}
                   /\ TargetStores(thr[t].arg) \cap TargetStores(thr[u].arg) = {}

AllDone == \A t \in Threads : thr[t].pc = "done"

\* C9: two concurrent WriteBatchItems calls on disjoint registered
\* identifiers never block each other (while one of them has not returned,
\* some step can be taken), and once both have returned nil every store they
\* target holds exactly what the items addressed to it write.
C9_DisjointCallsComplete ==
    C9_Case =>
        /\ ~AllDone => ENABLED NextConc
        /\ (AllDone /\ \A t \in Threads : thr[t].err = "nil") =>
              \A t \in Threads : \A s \in TargetStores(thr[t].arg) :
                  store[s] = ItemsApplied(dbs, [x \in Instances |-> <<>>],
                                          thr[t].arg)[s]

C9_Witness ==
    /\ C9_Case
    /\ AllDone
    /\ \A t \in Threads : thr[t].err = "nil" /\ Len(thr[t].arg) = 2
    /\ \A s \in Instances : store[s] # <<>>

----------------------------------------------------------------------------
(* Further claims about the batch protocol, checked under SpecBatch *)

\* C11: Marshal returns as many items as it is given pairs, the k-th item
\* with the identifier of the k-th pair and the dump of its batch: nothing is
\* reordered, dropped or merged, and the identifier need not be registered.
C11_MarshalKeepsOrder ==
    last.op = "Marshal" =>
        /\ last.ret.err = "nil"
        /\ Len(last.ret.batchItems) = Len(last.arg.batchs)
        /\ \A k \in 1..Len(last.arg.batchs) :
              /\ last.ret.batchItems[k].Id = last.arg.batchs[k].ID
              /\ last.ret.batchItems[k].Data =
                     BatchDump(last.arg.batchs[k].B.ops)

\* Three pairs, two of them with one identifier and different batches, and
\* an identifier that is not registered.
C11_Witness ==
    /\ last.op = "Marshal"
    /\ Len(last.arg.batchs) = 3
    /\ last.arg.batchs[1].ID = last.arg.batchs[3].ID
    /\ last.arg.batchs[1].B # last.arg.batchs[3].B
    /\ last.arg.batchs[2].ID \notin DOMAIN dbs
    /\ Len(last.ret.batchItems) = 3

\* The first position of items at which the load or the write fails, 0 when
\* there is none.
FirstFailure(items, failAt) ==
    LET bad == {k \in 1..Len(items) :
                   ~BatchLoad(items[k].Data).ok \/ k = failAt}
    IN  IF bad = {} THEN 0
        ELSE CHOOSE k \in bad : \A j \in bad : k <= j

\* The items WriteBatchItems gets to (all of them, or those up to the first
\* failure) have registered identifiers.
C18_Case ==
    /\ last.op = "WriteBatchItems"
    /\ LET f == FirstFailure(last.arg.items, last.arg.failAt)
           n == IF f = 0 THEN Len(last.arg.items) ELSE f
       IN  \A k \in 1..n : last.arg.items[k].Id \in DOMAIN last.pre.dbs

\* C18: WriteBatchItems writes its items in order, each to the store
\* registered under its identifier, and stops at the first item whose bytes
\* do not load or whose write fails: it returns that error, the items before
\* it are written, that item and the later ones change no store.
C18_ItemsStopAtFirstFailure ==
    C18_Case =>
        LET items == last.arg.items
            f == FirstFailure(items, last.arg.failAt)
        IN  IF f = 0
            THEN /\ last.ret.err = "nil"
                 /\ store = ItemsApplied(last.pre.dbs, last.pre.store, items)
            ELSE /\ last.ret.err = IF BatchLoad(items[f].Data).ok
                                   THEN "ErrWrite" ELSE "ErrLoad"
                 /\ store = ItemsApplied(last.pre.dbs, last.pre.store,
                                         SubSeq(items, 1, f - 1))

\* The second of three items does not load; the first changed a store and
\* the third would have changed one.
C18_Witness ==
    /\ C18_Case
    /\ Len(last.arg.items) = 3
    /\ FirstFailure(last.arg.items, last.arg.failAt) = 2
    /\ last.ret.err = "ErrLoad"
    /\ store # last.pre.store
    /\ last.arg.items[3].Id \in DOMAIN dbs
    /\ BatchLoad(last.arg.items[3].Data).ops # <<>>

----------------------------------------------------------------------------
(* Further claims about the checkpoint protocol, checked under SpecCkpt *)

\* The case of C13: GetBlockInfo with a metadata store designated, no
\* checkpoint key in it, and a Get that does not fail.
C13_Case ==
    /\ last.op = "GetBlockInfo"
    /\ last.arg.getOk
    /\ last.pre.metaDBID # MinInt32
    /\ LastBlockInfo \notin
           DOMAIN last.pre.store[last.pre.dbs[last.pre.metaDBID].db]

\* C13: in that case GetBlockInfo returns nil with the record whose block
\* number and message offset are -1 and whose other fields are zero, and it
\* changes no store.
C13_AbsentIsSentinel ==
    C13_Case =>
        /\ last.ret.err = "nil"
        /\ last.ret.hasHeader
        /\ last.ret.header =
               [ChainId |-> "", Env |-> "", BlockNum |-> -1, BlockHash |-> "",
                MsgOffset |-> -1, BlockType |-> 0, BlockSize |-> 0]
        /\ store = last.pre.store

C13_Witness == C13_Case /\ last.ret.err = "nil"

\* The case of C15: GetBlockInfo finds bytes under the checkpoint key that
\* do not deserialize.
C15_Case ==
    /\ last.op = "GetBlockInfo"
    /\ last.arg.getOk
    /\ last.pre.metaDBID # MinInt32
    /\ LET got == StoreGet(last.pre.store,
                           last.pre.dbs[last.pre.metaDBID].db, LastBlockInfo)
       IN  /\ got.found
           /\ Len(got.val) > 0
           /\ ~ProtoUnmarshal(got.val, ZeroBlockInfo).ok

\* C15: in that case GetBlockInfo returns no error and the result it returns
\* when no checkpoint was written, the record with block number -1 and
\* message offset -1.
C15_CorruptIsSentinel ==
    C15_Case =>
        /\ last.ret.err = "nil"
        /\ last.ret = GetBlockInfoRes(last.pre.dbs, last.pre.metaDBID,
                                      [c \in DOMAIN last.pre.store |-> <<>>],
                                      TRUE)
        /\ last.ret.hasHeader
        /\ last.ret.header.BlockNum = -1
        /\ last.ret.header.MsgOffset = -1

----------------------------------------------------------------------------
(* Further claims about the registry, checked under Spec *)

\* The case of C14: Open of a metadata descriptor with a new identifier and
\* a path no handle has, while a metadata identifier is designated, and the
\* store engine does not fail to open the store.
C14_Case ==
    /\ last.op = "Open"
    /\ last.arg.IsMeta
    /\ last.arg.Id \notin DOMAIN last.pre.dbs
    /\ ~OpenPathTaken(last.pre.dbs, last.arg)
    /\ last.pre.metaDBID # MinInt32
    /\ last.ret.err # "ErrOpen"

\* C14: in that case Open returns ErrMetaDBAlreadyRegistered, the process
\* lives, and metaDBID is as before.
C14_OpenSecondMetaIsError ==
    C14_Case =>
        /\ last.ret.err = "ErrMetaDBAlreadyRegistered"
        /\ ~aborted
        /\ metaDBID = last.pre.metaDBID

\* The case of C16: Open of an identifier that is in the map.
C16_Case ==
    /\ last.op = "Open"
    /\ last.arg.Id \in DOMAIN last.pre.dbs

\* C16: Open of an identifier that is in the map returns nil, opens no
\* store and leaves the map, the designation and the stores as they were,
\* whatever the path, engine type and metadata flag of the descriptor; and
\* after an Open in which the store engine did not fail, an Open of the same
\* descriptor changes nothing.
C16_OpenPresentNoOp ==
    /\ C16_Case =>
          /\ last.ret.err = "nil"
          /\ ~last.ret.opened
          /\ dbs = last.pre.dbs
          /\ metaDBID = last.pre.metaDBID
          /\ store = last.pre.store
          /\ ~aborted
    /\ (last.op = "Open" /\ last.ret.err # "ErrOpen") =>
          \A newOk \in BOOLEAN :
              /\ OpenRes(dbs, metaDBID, last.arg, newOk).dbs = dbs
              /\ OpenRes(dbs, metaDBID, last.arg, newOk).metaDBID = metaDBID

\* The descriptor differs from the handle in path, engine type and flag.
C16_Witness ==
    /\ C16_Case
    /\ last.arg.DbType = "leveldb"
    /\ last.arg.IsMeta
    /\ last.pre.metaDBID = MinInt32
    /\ ~last.pre.dbs[last.arg.Id].isMeta
    /\ last.pre.dbs[last.arg.Id].path # last.arg.DbPath
    /\ ~OpenPathTaken(last.pre.dbs, last.arg)

\* C19: once metaDBID is not the sentinel, no step changes it.
C19_DesignationWriteOnce ==
    [][metaDBID # MinInt32 => metaDBID' = metaDBID]_vars

\* A Register and an Open that ask for the designation when it is taken.
C19_Witness ==
    /\ last.op \in {"Register", "Open"}
    /\ last.pre.metaDBID # MinInt32
    /\ IF last.op = "Register" THEN last.arg.isMetaDB
       ELSE last.ret.err = "ErrMetaDBAlreadyRegistered"
    /\ metaDBID = last.pre.metaDBID

\* C20: after a Register with isMetaDB returns normally on a pool with no
\* metadata store, a metadata store is designated, whatever the identifier:
\* GetBlockInfo, WriteBlockInfo and GetDBInfo do not return
\* ErrNoMetaDBRegistered and a later Register with isMetaDB panics.
C20_MetaRegisterDesignates ==
    (/\ last.op = "Register"
     /\ last.arg.isMetaDB
     /\ last.ret.err = "nil"
     /\ last.pre.metaDBID = MinInt32
     /\ MetaFlagged(last.pre.dbs) = {}) =>
        /\ GetBlockInfoRes(dbs, metaDBID, store, TRUE).err
               # "ErrNoMetaDBRegistered"
        /\ WriteBlockInfoRes(dbs, metaDBID, store, ZeroBlockInfo, TRUE).err
               # "ErrNoMetaDBRegistered"
        /\ \A order \in Orders(DOMAIN dbs) :
              GetDBInfoRes(dbs, metaDBID, order).err # "ErrNoMetaDBRegistered"
        /\ RegisterPanics(metaDBID, TRUE)

----------------------------------------------------------------------------
(* Claims about wire items and their source batches, checked under SpecMem *)

\* C12: whatever is done to a source batch after Marshal returned (puts, a
\* write, a reset), every wire item has the identifier and the bytes it had
\* when Marshal returned.
C12_ItemIndependentOfSource ==
    /\ Len(mem.items) = Len(mem.made)
    /\ \A k \in 1..Len(mem.items) :
          /\ mem.items[k].Id = mem.made[k].Id
          /\ SliceBytes(mem.items[k].Data, mem.ops) = mem.made[k].Data

\* An item made of a batch with one put, whose batch was then written to its
\* store, reset and has taken another put.
C12_Witness ==
    /\ Len(mem.items) = 2
    /\ Len(BatchLoad(mem.made[1].Data).ops) = 2
    /\ mem.ops[mem.made[1].B] = <<Put("k", V1)>>
    /\ store[StoreOf(mem.made[1].B)] # <<>>
    /\ mem.made[2].B # mem.made[1].B
    /\ mem.ops[mem.made[2].B] = <<>>
    /\ mem.made[2].Data # <<>>

----------------------------------------------------------------------------
(* Claims about the lock, checked under SpecConc *)

\* The thread is past p.Lock() and before the deferred p.Unlock().
InWrite(t) == thr[t].pc \in {"insert", "designate", "unlock"}

\* The thread is past p.RLock() and before the deferred p.RUnlock().
InRead(t) == thr[t].pc \in {"loop", "read", "runlock"}

\* A handle with the metadata flag is in the map and no metadata store is
\* designated.
HalfRegistered(flagged, m) == flagged # {} /\ m = MinInt32

\* C17: while a thread is inside Register or Open no other thread is inside
\* the critical section of any operation, so no GetDBInfo reads a map that
\* has a handle with the metadata flag while the designation is not yet
\* made.
C17_WritersExclusive ==
    /\ \A t, u \in Threads :
          (t # u /\ InWrite(t)) => (~InWrite(u) /\ ~InRead(u))
    /\ HalfRegistered(MetaFlagged(dbs), metaDBID) =>
          \A t \in Threads : ~InRead(t)
    /\ \A t \in Threads :
          (thr[t].op = "GetDBInfo" /\ thr[t].pc \in {"runlock", "done"}) =>
              ~HalfRegistered(thr[t].arg.flagged, thr[t].arg.metaDBID)

\* A Register or an Open has put its flagged handle in the map and not yet
\* made the designation, while a GetDBInfo waits for the lock.
C17_Witness ==
    /\ HalfRegistered(MetaFlagged(dbs), metaDBID)
    /\ \E t, u \in Threads :
          /\ thr[t].pc = "designate"
          /\ thr[u].op = "GetDBInfo"
          /\ thr[u].pc = "rlock"

----------------------------------------------------------------------------
(* Claims about what Open leaves open, checked under Spec *)

\* C21: after an Open that returned nil, whatever the engine type of its
\* descriptor, the store is in the registry: GetDB of the descriptor's
\* identifier succeeds or GetDBID of the descriptor's path succeeds.
C21_OpenedAfterSuccess ==
    (last.op = "Open" /\ last.ret.err = "nil") =>
        \/ GetDBRes(dbs, last.arg.Id).err = "nil"
        \/ GetDBIDMatches(dbs, last.arg.DbPath) # {}

----------------------------------------------------------------------------
(* Claims about termination, checked under SpecConcFair *)

\* The thread holds the lock in neither form.
HoldsNoLock(t) == t \notin rw.readers /\ rw.writer # t

\* C22: a thread that has left its call, by a return, an error return or a
\* panic, holds no lock; and, the process being alive, every call a thread
\* has started is eventually completed: no thread waits for the lock for
\* ever.
C22_EveryCallCompletes ==
    /\ [](\A t \in Threads : thr[t].pc \in {"idle", "done"} => HoldsNoLock(t))
    /\ \A t \in Threads :
          (thr[t].pc # "idle") ~> (thr[t].pc = "done" \/ aborted)

\* Both calls are complete and nobody holds the lock, after an Open that
\* returned the store engine's error and a WriteBatchItems that returned a
\* write error.
C22_Witness ==
    /\ AllDone
    /\ ~aborted
    /\ rw = Unlocked
    /\ \E t, u \in Threads :
          /\ thr[t].op = "Open" /\ thr[t].err = "ErrOpen"
          /\ thr[u].op = "WriteBatchItems" /\ thr[u].err = "ErrWrite"

====
